---- MODULE Spec2Model ----
(***************************************************************************)
(* A model of src/lab3.py: RegexFSM.__init__ compiles a pattern over       *)
(* ASCII literals, '.', '*' and '+' into a graph of State objects, and     *)
(* RegexFSM.check_string decides acceptance by a depth-first search over   *)
(* (state, position) pairs guarded by a visited set.                       *)
(*                                                                         *)
(* Characters are code points, strings are sequences of code points, and   *)
(* State objects live in the sequence objs, an object's identity being its *)
(* index (creation order).                                                 *)
(***************************************************************************)
EXTENDS Integers, Sequences, FiniteSets

VARIABLES
    regex_expr,    \* the argument of RegexFSM.__init__
    i,             \* __init__'s scan index (0-based, as in the source)
    states,        \* self.states: the list of state identities
    objs,          \* the State objects created so far, by identity
    pc,            \* "compile", "ready", "call", "loop", "ret", "done", "raised"
    raised,        \* the exception that propagated to the caller, or "none"
    compiled,      \* TRUE once __init__ has returned a RegexFSM
    input_string,  \* the argument of check_string
    visited,       \* check_string's visited set of <<id(state), idx>>
    stack,         \* the active dfs frames: [state, idx, k], innermost last
    call,          \* the dfs call about to be entered: [state, idx]
    ret,           \* the value the dfs call that just finished returned
    result,        \* what the last check_string returned
    frames,        \* number of dfs calls of this check_string that passed the visited guard
    history        \* <<input, returned value, frames>> of the calls recorded so far

vars == <<regex_expr, i, states, objs, pc, raised, compiled, input_string,
          visited, stack, call, ret, result, frames, history>>

----------------------------------------------------------------------------
(* Bounds of the model.                                                    *)

\* Longest pattern drawn from the pattern alphabet.
MaxPatLen == 3

\* Longest input drawn from the input alphabet.
MaxInLen == 3

\* Largest repetition count n of the "a" * n inputs tested on the pattern "a*".
MaxRep == 50

\* Most leading 'a' of the inputs "a" * n + "4uhi" tested on the demo pattern.
MaxLead == 6

\* Longest pattern and longest input of the repeated-call specifications.
RepeatPatLen == 2

RepeatInLen == 1

\* Most different inputs whose returned values are recorded.
MaxCalls == 2

\* CPython's default recursion limit (sys.getrecursionlimit()); lab3.py never
\* changes it, and dfs recurses once per consumed character.
RecursionLimit == 1000

----------------------------------------------------------------------------
(* Characters and strings.                                                 *)

\* Code point of a character, given by name.
ord(c) ==
    CASE c = "#" -> 35
      [] c = "*" -> 42
      [] c = "+" -> 43
      [] c = "." -> 46
      [] c = "4" -> 52
      [] c = "a" -> 97
      [] c = "b" -> 98
      [] c = "c" -> 99
      [] c = "e" -> 101
      [] c = "h" -> 104
      [] c = "i" -> 105
      [] c = "m" -> 109
      [] c = "o" -> 111
      [] c = "u" -> 117
      [] c = "w" -> 119
      [] c = "x" -> 120
      [] c = "e_acute" -> 233

\* The string whose characters are named by the tuple s.
Str(s) == [k \in DOMAIN s |-> ord(s[k])]

\* c * n
Rep(c, n) == [k \in 1..n |-> ord(c)]

\* All strings over alphabet A of length at most n.
StringsUpTo(A, n) == UNION {[1..k -> A] : k \in 0..n}

\* Mutant of isascii: str.isalnum() in its place (letters and digits only).
isascii_Alnum(char) ==
    char \in (48..57) \cup (65..90) \cup (97..122)

\* str.isascii() of a one-character string.
isascii(char) == char >= 0 /\ char <= 127

\* char in "*+."
IsOperatorOrDot(char) == char \in {ord("*"), ord("+"), ord(".")}

----------------------------------------------------------------------------
(* The State classes.  An object is a record; curr_sym is -1 and           *)
(* checking_state is 0 where the class has no such attribute.              *)

\* State.__init__: next_states starts empty.
StartState == [cls |-> "StartState", curr_sym |-> -1, checking_state |-> 0,
               next_states |-> <<>>]

TerminationState == [cls |-> "TerminationState", curr_sym |-> -1,
                     checking_state |-> 0, next_states |-> <<>>]

\* Mutant of DotState: '.' compiled as the literal character '.'.
DotState_AsLiteral == [cls |-> "AsciiState", curr_sym |-> ord("."),
                       checking_state |-> 0, next_states |-> <<>>]

DotState == [cls |-> "DotState", curr_sym |-> -1, checking_state |-> 0,
             next_states |-> <<>>]

AsciiState(symbol) == [cls |-> "AsciiState", curr_sym |-> symbol,
                       checking_state |-> 0, next_states |-> <<>>]

\* StarState.__init__: self.next_states.append(self); self is the new identity.
StarState(checking_state, self) ==
    [cls |-> "StarState", curr_sym |-> -1, checking_state |-> checking_state,
     next_states |-> <<self>>]

\* PlusState.__init__: self.next_states.append(self).
PlusState(checking_state, self) ==
    [cls |-> "PlusState", curr_sym |-> -1, checking_state |-> checking_state,
     next_states |-> <<self>>]

\* state.check_self(char), dispatched on the class of object s of heap o.
RECURSIVE check_self(_, _, _)
\* Mutant of check_self: DotState.check_self returns False.
check_self_DotRejects(o, s, char) ==
    CASE o[s].cls = "StartState" -> TRUE
      [] o[s].cls = "TerminationState" -> FALSE
      [] o[s].cls = "DotState" -> FALSE
      [] o[s].cls = "AsciiState" -> char = o[s].curr_sym
      [] o[s].cls = "StarState" -> check_self(o, o[s].checking_state, char)
      [] o[s].cls = "PlusState" -> check_self(o, o[s].checking_state, char)

\* Mutant of check_self: PlusState.check_self does not delegate to the state
\* it wraps and returns False.
check_self_PlusRejects(o, s, char) ==
    CASE o[s].cls = "StartState" -> TRUE
      [] o[s].cls = "TerminationState" -> FALSE
      [] o[s].cls = "DotState" -> TRUE
      [] o[s].cls = "AsciiState" -> char = o[s].curr_sym
      [] o[s].cls = "StarState" -> check_self(o, o[s].checking_state, char)
      [] o[s].cls = "PlusState" -> FALSE

check_self(o, s, char) ==
    CASE o[s].cls = "StartState" -> TRUE
      [] o[s].cls = "TerminationState" -> FALSE
      [] o[s].cls = "DotState" -> TRUE
      [] o[s].cls = "AsciiState" -> char = o[s].curr_sym
      [] o[s].cls = "StarState" -> check_self(o, o[s].checking_state, char)
      [] o[s].cls = "PlusState" -> check_self(o, o[s].checking_state, char)

\* s.next_states.append(t)
AppendNext(o, s, t) == [o EXCEPT ![s].next_states = Append(@, t)]

\* s.next_states.extend(ts)
ExtendNext(o, s, ts) == [o EXCEPT ![s].next_states = @ \o ts]

----------------------------------------------------------------------------
(* RegexFSM.__init__, one action per character of the pattern.             *)

\* regex_expr[i] (the source's index is 0-based)
char == regex_expr[i + 1]

\* self.states[-1]
LastState(sts) == sts[Len(sts)]

\* self.states[-2] exists (otherwise the subscript raises IndexError)
HasSecondToLast(sts) == Len(sts) >= 2

\* self.states[-2]
SecondToLast(sts) == sts[Len(sts) - 1]

\* The identity of the next object created.
NewId(o) == Len(o) + 1

\* Mutant of AtomWiring: the edge leaves self.states[0], not self.states[-1].
AtomWiring_FromFirst(o, sts, new_state) ==
    AppendNext(Append(o, new_state), sts[1], NewId(o))

\* An atom: new_state joins the heap, the last state gets an edge to it.
AtomWiring(o, sts, new_state) ==
    AppendNext(Append(o, new_state), LastState(sts), NewId(o))

\* '*', up to the subscript self.states[-2]: star_state = StarState(base_state);
\* star_state.next_states.extend(base_state.next_states);
\* base_state.next_states.extend(star_state.next_states)
StarWiring(o, base_state) ==
    LET star_state == NewId(o)
        o1 == Append(o, StarState(base_state, star_state))
        o2 == ExtendNext(o1, star_state, o1[base_state].next_states)
    IN  ExtendNext(o2, base_state, o2[star_state].next_states)

\* Mutant of PlusWiring: '+' wired as '*' is, base_state also getting the
\* transitions of plus_state.
PlusWiring_Reciprocal(o, base_state) ==
    LET plus_state == NewId(o)
        o1 == Append(o, PlusState(base_state, plus_state))
        o2 == ExtendNext(o1, plus_state, o1[base_state].next_states)
    IN  ExtendNext(o2, base_state, o2[plus_state].next_states)

\* '+', up to the subscript self.states[-2]: plus_state = PlusState(base_state);
\* plus_state.next_states.extend(base_state.next_states)
PlusWiring(o, base_state) ==
    LET plus_state == NewId(o)
        o1 == Append(o, PlusState(base_state, plus_state))
    IN  ExtendNext(o1, plus_state, o1[base_state].next_states)

\* Mutant of PredEdge: the edge from self.states[-2] is forgotten.
PredEdge_Omitted(o, sts, repeat_state) == o

\* self.states[-2].next_states.append(repeat_state)
PredEdge(o, sts, repeat_state) == AppendNext(o, SecondToLast(sts), repeat_state)

Scanning == pc = "compile" /\ i < Len(regex_expr)

CallVarsUnchanged ==
    UNCHANGED <<input_string, visited, stack, call, ret, result, frames, history>>

\* if char.isascii() and char not in "*+.":
CompileAscii ==
    /\ Scanning
    /\ isascii(char) /\ ~IsOperatorOrDot(char)
    /\ objs' = AtomWiring(objs, states, AsciiState(char))
    /\ states' = Append(states, NewId(objs))
    /\ i' = i + 1
    /\ UNCHANGED <<regex_expr, pc, raised, compiled>>
    /\ CallVarsUnchanged

\* elif char == ".":
CompileDot ==
    /\ Scanning
    /\ ~(isascii(char) /\ ~IsOperatorOrDot(char))
    /\ char = ord(".")
    /\ objs' = AtomWiring(objs, states, DotState)
    /\ states' = Append(states, NewId(objs))
    /\ i' = i + 1
    /\ UNCHANGED <<regex_expr, pc, raised, compiled>>
    /\ CallVarsUnchanged

\* elif char == "*":
CompileStar ==
    /\ Scanning
    /\ ~(isascii(char) /\ ~IsOperatorOrDot(char))
    /\ char = ord("*")
    /\ HasSecondToLast(states)
    /\ objs' = PredEdge(StarWiring(objs, LastState(states)), states, NewId(objs))
    /\ states' = Append(states, NewId(objs))
    /\ i' = i + 1
    /\ UNCHANGED <<regex_expr, pc, raised, compiled>>
    /\ CallVarsUnchanged

\* Mutant of CompilePlus: self.states.append(plus_state) is forgotten, so what
\* follows attaches to the base.
CompilePlus_NoFrontier ==
    /\ Scanning
    /\ ~(isascii(char) /\ ~IsOperatorOrDot(char))
    /\ char = ord("+")
    /\ HasSecondToLast(states)
    /\ objs' = PredEdge(PlusWiring(objs, LastState(states)), states, NewId(objs))
    /\ i' = i + 1
    /\ UNCHANGED <<regex_expr, pc, raised, compiled, states>>
    /\ CallVarsUnchanged

\* elif char == "+":
CompilePlus ==
    /\ Scanning
    /\ ~(isascii(char) /\ ~IsOperatorOrDot(char))
    /\ char = ord("+")
    /\ HasSecondToLast(states)
    /\ objs' = PredEdge(PlusWiring(objs, LastState(states)), states, NewId(objs))
    /\ states' = Append(states, NewId(objs))
    /\ i' = i + 1
    /\ UNCHANGED <<regex_expr, pc, raised, compiled>>
    /\ CallVarsUnchanged

\* '*' or '+' while self.states holds only the start state: the subscript
\* self.states[-2] raises IndexError after the repeat state was wired to base.
CompileIndexError ==
    /\ Scanning
    /\ ~(isascii(char) /\ ~IsOperatorOrDot(char))
    /\ char \in {ord("*"), ord("+")}
    /\ ~HasSecondToLast(states)
    /\ objs' = IF char = ord("*") THEN StarWiring(objs, LastState(states))
                                  ELSE PlusWiring(objs, LastState(states))
    /\ pc' = "raised"
    /\ raised' = "IndexError"
    /\ UNCHANGED <<regex_expr, i, states, compiled>>
    /\ CallVarsUnchanged

\* else: raise ValueError("Invalid character")
CompileValueError ==
    /\ Scanning
    /\ ~(isascii(char) /\ ~IsOperatorOrDot(char))
    /\ char \notin {ord("."), ord("*"), ord("+")}
    /\ pc' = "raised"
    /\ raised' = "ValueError"
    /\ UNCHANGED <<regex_expr, i, states, objs, compiled>>
    /\ CallVarsUnchanged

\* After the loop: termination = TerminationState();
\* self.states[-1].next_states.append(termination); __init__ returns.
CompileEnd ==
    /\ pc = "compile" /\ i = Len(regex_expr)
    /\ objs' = AtomWiring(objs, states, TerminationState)
    /\ pc' = "ready"
    /\ compiled' = TRUE
    /\ UNCHANGED <<regex_expr, i, states, raised>>
    /\ CallVarsUnchanged

----------------------------------------------------------------------------
(* RegexFSM.check_string: dfs as an explicit stack machine.                *)

\* any(isinstance(s, TerminationState) for s in state.next_states)
HasTermination(o, s) ==
    \E k \in DOMAIN o[s].next_states :
        o[o[s].next_states[k]].cls = "TerminationState"

\* Mutant of VisitedKey: the visited set is keyed by the state alone.
VisitedKey_StateOnly(state, idx) == <<state, 0>>

\* (id(state), idx)
VisitedKey(state, idx) == <<state, idx>>

\* The innermost active dfs frame.
Top == stack[Len(stack)]

Pop(stk) == SubSeq(stk, 1, Len(stk) - 1)

\* The neighbour the innermost frame's for loop is at.
next_state == objs[Top.state].next_states[Top.k]

\* What dfs neither reads for writing nor writes: the compiled automaton (and
\* the record of earlier calls).
CompileVarsUnchanged ==
    UNCHANGED <<regex_expr, i, states, objs, compiled, history>>

\* Mutant of FreshVisited: the visited set is kept from call to call (an
\* attribute of the automaton, not a local of check_string).
FreshVisited_Retained(old) == old

\* visited = set(): each call starts from an empty set, whatever an earlier
\* call left.
FreshVisited(old) == {}

\* Does entering one more dfs frame exceed the interpreter's recursion limit?
\* (Only dfs frames are counted, so the real interpreter gives up no later.)
TooDeep(stk) == Len(stk) >= RecursionLimit

\* check_string(s): visited = set(); return dfs(self.start_state, 0).
\* start_state is the first object created.
CheckString(s) ==
    /\ compiled /\ pc \in {"ready", "done", "raised"}
    /\ input_string' = s
    /\ visited' = FreshVisited(visited)
    /\ stack' = <<>>
    /\ call' = [state |-> 1, idx |-> 0]
    /\ ret' = FALSE
    /\ result' = FALSE
    /\ frames' = 0
    /\ raised' = "none"
    /\ pc' = "call"
    /\ CompileVarsUnchanged

\* Entering dfs at the recursion limit: RecursionError unwinds every frame
\* and leaves check_string.
DfsRecursionError ==
    /\ pc = "call"
    /\ TooDeep(stack)
    /\ stack' = <<>>
    /\ raised' = "RecursionError"
    /\ pc' = "raised"
    /\ UNCHANGED <<input_string, visited, call, ret, result, frames>>
    /\ CompileVarsUnchanged

\* if (id(state), idx) in visited: return False
DfsVisited ==
    /\ pc = "call"
    /\ ~TooDeep(stack)
    /\ VisitedKey(call.state, call.idx) \in visited
    /\ ret' = FALSE
    /\ pc' = "ret"
    /\ UNCHANGED <<input_string, visited, stack, call, result, frames, raised>>
    /\ CompileVarsUnchanged

\* visited.add(...); if idx == len(input_string): return any(...)
DfsBase ==
    /\ pc = "call"
    /\ ~TooDeep(stack)
    /\ VisitedKey(call.state, call.idx) \notin visited
    /\ call.idx = Len(input_string)
    /\ visited' = visited \cup {VisitedKey(call.state, call.idx)}
    /\ frames' = frames + 1
    /\ ret' = HasTermination(objs, call.state)
    /\ pc' = "ret"
    /\ UNCHANGED <<input_string, stack, call, result, raised>>
    /\ CompileVarsUnchanged

\* visited.add(...); idx < len(input_string): the for loop starts.
DfsEnter ==
    /\ pc = "call"
    /\ ~TooDeep(stack)
    /\ VisitedKey(call.state, call.idx) \notin visited
    /\ call.idx # Len(input_string)
    /\ visited' = visited \cup {VisitedKey(call.state, call.idx)}
    /\ frames' = frames + 1
    /\ stack' = Append(stack, [state |-> call.state, idx |-> call.idx, k |-> 1])
    /\ pc' = "loop"
    /\ UNCHANGED <<input_string, call, ret, result, raised>>
    /\ CompileVarsUnchanged

\* if next_state.check_self(input_string[idx]): dfs(next_state, idx + 1)
DfsConsume ==
    /\ pc = "loop"
    /\ Top.k <= Len(objs[Top.state].next_states)
    /\ check_self(objs, next_state, input_string[Top.idx + 1])
    /\ call' = [state |-> next_state, idx |-> Top.idx + 1]
    /\ pc' = "call"
    /\ UNCHANGED <<input_string, visited, stack, ret, result, frames, raised>>
    /\ CompileVarsUnchanged

\* elif dfs(next_state, idx)
DfsPassThrough ==
    /\ pc = "loop"
    /\ Top.k <= Len(objs[Top.state].next_states)
    /\ ~check_self(objs, next_state, input_string[Top.idx + 1])
    /\ call' = [state |-> next_state, idx |-> Top.idx]
    /\ pc' = "call"
    /\ UNCHANGED <<input_string, visited, stack, ret, result, frames, raised>>
    /\ CompileVarsUnchanged

\* The for loop is exhausted: return False
DfsExhausted ==
    /\ pc = "loop"
    /\ Top.k > Len(objs[Top.state].next_states)
    /\ stack' = Pop(stack)
    /\ ret' = FALSE
    /\ pc' = "ret"
    /\ UNCHANGED <<input_string, visited, call, result, frames, raised>>
    /\ CompileVarsUnchanged

\* The inner dfs returned True: return True
DfsReturnTrue ==
    /\ pc = "ret"
    /\ stack # <<>>
    /\ ret
    /\ stack' = Pop(stack)
    /\ UNCHANGED <<input_string, visited, call, ret, result, frames, raised, pc>>
    /\ CompileVarsUnchanged

\* Mutant of AfterFailure: the frame gives up after its first failing
\* neighbour (return dfs(...) inside the loop).
AfterFailure_GiveUp(k, n) == n + 1

\* The for loop's position after neighbour k of n failed: the next one.
AfterFailure(k, n) == k + 1

\* The inner dfs returned False: the for loop goes to the next neighbour.
DfsReturnFalse ==
    /\ pc = "ret"
    /\ stack # <<>>
    /\ ~ret
    /\ stack' = [stack EXCEPT ![Len(stack)].k =
                    AfterFailure(@, Len(objs[Top.state].next_states))]
    /\ pc' = "loop"
    /\ UNCHANGED <<input_string, visited, call, ret, result, frames, raised>>
    /\ CompileVarsUnchanged

\* dfs(self.start_state, 0) returned: check_string returns its value.
ReturnToCaller ==
    /\ pc = "ret"
    /\ stack = <<>>
    /\ result' = ret
    /\ pc' = "done"
    /\ UNCHANGED <<input_string, visited, stack, call, ret, frames, raised>>
    /\ UNCHANGED <<regex_expr, i, states, objs, compiled>>

CheckStringReturn == ReturnToCaller /\ UNCHANGED history

----------------------------------------------------------------------------
(* The patterns compiled and the inputs checked.                           *)

PatAlphabet == {ord("a"), ord("b"), ord("."), ord("*"), ord("+"), ord("e_acute")}

InAlphabet == {ord("a"), ord("b")}

\* The pattern of the doctest and of __main__.
DemoPattern == Str(<<"a", "*", "4", ".", "+", "h", "i">>)

HashPattern == Str(<<"a", "#", "b">>)

AStar == Str(<<"a", "*">>)

APlus == Str(<<"a", "+">>)

WildcardPattern == Str(<<"a", ".", "c">>)

Patterns ==
    StringsUpTo(PatAlphabet, MaxPatLen)
        \cup {DemoPattern, HashPattern, WildcardPattern}

\* Only literals and '.'.
OperatorFree(p) ==
    \A k \in DOMAIN p : isascii(p[k]) /\ p[k] \notin {ord("*"), ord("+")}

\* The characters tried between the '4' and the "hi" of a demo input.
MidChars == {ord("u"), ord("x"), ord("4"), ord("a"), ord("h")}

\* "a" * n, then '4', the character c, then "hi"
LeadingAs(n, c) == Rep("a", n) \o <<ord("4"), c>> \o Str(<<"h", "i">>)

DemoInputs ==
    {LeadingAs(n, c) : n \in 0..MaxLead, c \in MidChars}
        \cup {Str(<<"m", "e", "o", "w">>)}

\* 'a', the character c, 'c'
Wildcarded(c) == <<ord("a"), c, ord("c")>>

WildcardInputs ==
    {Wildcarded(c) : c \in MidChars \cup {ord("b"), ord("c")}}
        \cup {Str(<<"a", "c">>)}

Inputs(p) ==
    StringsUpTo(InAlphabet, MaxInLen)
        \cup (IF OperatorFree(p) THEN {p, p \o <<ord("x")>>} ELSE {})
        \cup (IF p = DemoPattern THEN DemoInputs ELSE {})
        \cup (IF p = WildcardPattern THEN WildcardInputs ELSE {})
        \cup (IF p = AStar
              THEN {Rep("a", n) : n \in 0..MaxRep} \cup {Rep("a", RecursionLimit)}
              ELSE {})

----------------------------------------------------------------------------
(* The specification.                                                      *)

\* self.start_state = StartState(); self.states = [self.start_state]; i = 0
Constructed ==
    /\ i = 0
    /\ states = <<1>>
    /\ objs = <<StartState>>
    /\ pc = "compile"
    /\ raised = "none"
    /\ compiled = FALSE
    /\ input_string = <<>>
    /\ visited = {}
    /\ stack = <<>>
    /\ call = [state |-> 1, idx |-> 0]
    /\ ret = FALSE
    /\ result = FALSE
    /\ frames = 0
    /\ history = {}

Init == regex_expr \in Patterns /\ Constructed

Next ==
    \/ CompileAscii
    \/ CompileDot
    \/ CompileStar
    \/ CompilePlus
    \/ CompileIndexError
    \/ CompileValueError
    \/ CompileEnd
    \/ \E s \in Inputs(regex_expr) : CheckString(s)
    \/ DfsRecursionError
    \/ DfsVisited
    \/ DfsBase
    \/ DfsEnter
    \/ DfsConsume
    \/ DfsPassThrough
    \/ DfsExhausted
    \/ DfsReturnTrue
    \/ DfsReturnFalse
    \/ CheckStringReturn

Spec == Init /\ [][Next]_vars

----------------------------------------------------------------------------
(* Repeated calls on one automaton, the value of each returned call being  *)
(* recorded.  Patterns and inputs are short (no input comes near the       *)
(* recursion limit), and at most MaxCalls different inputs are recorded.   *)

RepeatPatterns == StringsUpTo(PatAlphabet, RepeatPatLen)

RepeatInputs == StringsUpTo(InAlphabet, RepeatInLen)

Recorded(s) == \E h \in history : h[1] = s

InitRepeat == regex_expr \in RepeatPatterns /\ Constructed

\* check_string(s), s an input already answered or one more input.
RecordedCall(s) ==
    /\ Recorded(s) \/ Cardinality({h[1] : h \in history}) < MaxCalls
    /\ CheckString(s)

\* check_string returns; the caller notes the input and the value.
RecordedReturn ==
    /\ ReturnToCaller
    /\ history' = history \cup {<<input_string, ret, frames>>}

NextRepeat ==
    \/ CompileAscii
    \/ CompileDot
    \/ CompileStar
    \/ CompilePlus
    \/ CompileIndexError
    \/ CompileValueError
    \/ CompileEnd
    \/ \E s \in RepeatInputs : RecordedCall(s)
    \/ DfsVisited
    \/ DfsBase
    \/ DfsEnter
    \/ DfsConsume
    \/ DfsPassThrough
    \/ DfsExhausted
    \/ DfsReturnTrue
    \/ DfsReturnFalse
    \/ RecordedReturn

SpecRepeat == InitRepeat /\ [][NextRepeat]_vars

----------------------------------------------------------------------------
(* Calls on one input, the order of the transitions of the compiled        *)
(* automaton's states being permuted between the calls.  The permutation   *)
(* is no operation of lab3.py: it is the hypothesis of the claim about the *)
(* order of next_states.                                                   *)

\* The sequence seq with its entries k and k + 1 exchanged.
Swap(seq, k) ==
    [j \in DOMAIN seq |-> IF j = k THEN seq[k + 1]
                          ELSE IF j = k + 1 THEN seq[k] ELSE seq[j]]

\* Between two calls, two neighbouring entries of one state's next_states
\* change places.
Shuffle ==
    /\ compiled /\ pc \in {"ready", "done"}
    /\ \E q \in DOMAIN objs :
          \E k \in 1..(Len(objs[q].next_states) - 1) :
              objs' = [objs EXCEPT ![q].next_states = Swap(@, k)]
    /\ pc' = "ready"
    /\ UNCHANGED <<regex_expr, i, states, raised, compiled, input_string,
                   visited, stack, call, ret, result, frames, history>>

\* check_string(s), s the one input this automaton is asked about.
PermutedCall(s) ==
    /\ history = {} \/ Recorded(s)
    /\ CheckString(s)

NextPermuted ==
    \/ CompileAscii
    \/ CompileDot
    \/ CompileStar
    \/ CompilePlus
    \/ CompileIndexError
    \/ CompileValueError
    \/ CompileEnd
    \/ Shuffle
    \/ \E s \in RepeatInputs : PermutedCall(s)
    \/ DfsVisited
    \/ DfsBase
    \/ DfsEnter
    \/ DfsConsume
    \/ DfsPassThrough
    \/ DfsExhausted
    \/ DfsReturnTrue
    \/ DfsReturnFalse
    \/ RecordedReturn

SpecPermuted == InitRepeat /\ [][NextPermuted]_vars

----------------------------------------------------------------------------
(* Claims.                                                                 *)

Returned == pc = "done"

Empty == <<>>

\* C1: for the pattern "a*", check_string("") returns True.
C1_StarMatchesEmpty ==
    (Returned /\ regex_expr = AStar /\ input_string = Empty) => result

\* C2: for the pattern "a+", check_string("") returns False and
\* check_string("a") returns True.
C2_PlusOneOrMore ==
    (Returned /\ regex_expr = APlus) =>
        /\ (input_string = Empty => ~result)
        /\ (input_string = Str(<<"a">>) => result)

C2_Witness ==
    Returned /\ regex_expr = APlus /\ input_string = Str(<<"a">>) /\ result

\* C3: for every operator-free pattern p, check_string(p) returns True and
\* check_string(p + "x") returns False.
C3_OperatorFreeMatchesItself ==
    (Returned /\ OperatorFree(regex_expr)) =>
        /\ (input_string = regex_expr => result)
        /\ (input_string = regex_expr \o <<ord("x")>> => ~result)

C3_Witness ==
    /\ Returned /\ OperatorFree(regex_expr)
    /\ \E k \in DOMAIN regex_expr : regex_expr[k] = ord(".")
    /\ \E k \in DOMAIN regex_expr : regex_expr[k] # ord(".")
    /\ input_string = regex_expr \o <<ord("x")>>
    /\ ~result

\* An operator-free pattern p and a string s agree in length and content,
\* '.' standing for any character.
ExactMatch(p, s) ==
    /\ Len(s) = Len(p)
    /\ \A k \in DOMAIN p : p[k] = ord(".") \/ p[k] = s[k]

\* C4: an operator-free pattern accepts only strings of its own length that
\* agree with it at every position that is not '.'.
C4_OperatorFreeExact ==
    (Returned /\ OperatorFree(regex_expr) /\ result) =>
        ExactMatch(regex_expr, input_string)

\* C5 (as claimed): compiling "a#b" fails with the invalid-pattern error and
\* produces no automaton.
C5_HashIsInvalid ==
    (regex_expr = HashPattern /\ pc # "compile") =>
        (~compiled /\ raised = "ValueError")

\* C5 (amended): compiling "a#b" raises nothing and produces an automaton, '#'
\* being compiled as an ASCII literal; that automaton accepts "a#b".
C5_HashIsLiteral ==
    regex_expr = HashPattern =>
        /\ raised = "none"
        /\ (pc # "compile" => compiled)
        /\ (i >= 2 => objs[3].cls = "AsciiState" /\ objs[3].curr_sym = ord("#"))
        /\ (Returned /\ input_string = HashPattern => result)

C5_Witness ==
    Returned /\ regex_expr = HashPattern /\ input_string = HashPattern /\ result

IsOperator(c) == c \in {ord("*"), ord("+")}

\* The pattern begins with an operator or holds two operators in a row.
OperatorWithoutAtom(p) ==
    \/ (Len(p) >= 1 /\ IsOperator(p[1]))
    \/ \E k \in 1..(Len(p) - 1) : IsOperator(p[k]) /\ IsOperator(p[k + 1])

\* C6: a pattern with an operator that has no preceding atom fails to compile
\* with the invalid-pattern error, the one raised for an invalid character.
C6_OperatorWithoutAtomIsInvalid ==
    (OperatorWithoutAtom(regex_expr) /\ pc # "compile") =>
        (~compiled /\ raised = "ValueError")

\* C7 (as claimed): for the pattern "a*4.+hi", check_string("44hi") returns
\* False.
C7_DemoRejects44hi ==
    (Returned /\ regex_expr = DemoPattern
        /\ input_string = Str(<<"4", "4", "h", "i">>)) => ~result

\* C7 (amended): for the pattern "a*4.+hi", check_string("44hi") returns True.
C7_DemoAccepts44hi ==
    (Returned /\ regex_expr = DemoPattern
        /\ input_string = Str(<<"4", "4", "h", "i">>)) => result

C7_Witness ==
    /\ Returned /\ regex_expr = DemoPattern
    /\ input_string = Str(<<"4", "4", "h", "i">>)
    /\ result

\* C8: for the pattern "a*4.+hi", check_string returns True for every
\* "a" * n + "4" + c + "hi" ("aaaaaa4uhi", "aaaaa4uhi" and "4uhi" among them)
\* and False for "meow".
C8_DemoScenarios ==
    (Returned /\ regex_expr = DemoPattern) =>
        /\ ((\E n \in 0..Len(input_string), c \in MidChars :
                input_string = LeadingAs(n, c)) => result)
        /\ (input_string = Str(<<"m", "e", "o", "w">>) => ~result)

C8_Witness ==
    /\ Returned /\ regex_expr = DemoPattern
    /\ input_string = LeadingAs(6, ord("u"))
    /\ result

\* C9: for the pattern "a*", check_string("a" * n) returns True for every
\* n >= 0.
C9_StarUnbounded ==
    (regex_expr = AStar /\ pc \in {"done", "raised"}
        /\ input_string = Rep("a", Len(input_string))) =>
        (Returned /\ result)

\* C10: check_string never raises, and the dfs frames that pass the visited
\* guard number at most (number of states) x (len(input) + 1).
C10_NoRaiseAndFrameBound ==
    compiled =>
        /\ raised = "none"
        /\ frames <= Len(objs) * (Len(input_string) + 1)

\* The part of C10 that the visited guard gives: every pair is expanded at
\* most once, so the frames are counted by the visited set and bounded.
FrameBound ==
    compiled =>
        /\ frames = Cardinality(visited)
        /\ visited \subseteq (1..Len(objs)) \X (0..Len(input_string))
        /\ frames <= Len(objs) * (Len(input_string) + 1)

\* C12: for the pattern "a.c", check_string returns True for "abc", "axc" and
\* every other 'a' + c + 'c', and False for "ac".
C12_Wildcard ==
    (Returned /\ regex_expr = WildcardPattern) =>
        /\ ((Len(input_string) = 3 /\ input_string = Wildcarded(input_string[2]))
                => result)
        /\ (input_string = Str(<<"a", "c">>) => ~result)

C12_Witness ==
    /\ Returned /\ regex_expr = WildcardPattern
    /\ input_string = Str(<<"a", "x", "c">>)
    /\ result

HasNonAscii(p) == \E k \in DOMAIN p : ~isascii(p[k])

\* The position (1-based) of the first non-ASCII character of p.
FirstNonAscii(p) ==
    CHOOSE k \in DOMAIN p :
        ~isascii(p[k]) /\ \A j \in 1..(k - 1) : isascii(p[j])

\* C13: compiling a pattern that holds a non-ASCII character fails with the
\* invalid-pattern error, raised at the first such character, and gives the
\* caller no automaton.
C13_NonAsciiIsInvalid ==
    (HasNonAscii(regex_expr) /\ pc # "compile") =>
        /\ ~compiled
        /\ raised = "ValueError"
        /\ i + 1 = FirstNonAscii(regex_expr)

\* What holds of C13 in the code: no automaton, whatever was built before;
\* and the ValueError at the first non-ASCII character unless the pattern
\* begins with an operator.
NonAsciiNoAutomaton ==
    HasNonAscii(regex_expr) =>
        /\ ~compiled
        /\ (pc # "compile" /\ ~IsOperator(regex_expr[1]) =>
                raised = "ValueError" /\ i + 1 = FirstNonAscii(regex_expr))
        /\ (pc # "compile" /\ IsOperator(regex_expr[1]) =>
                raised = "IndexError" /\ i = 0)

\* A literal, then '+', then only literals and '.'.
LiteralPlusAtoms(p) ==
    /\ Len(p) >= 2
    /\ isascii(p[1]) /\ ~IsOperatorOrDot(p[1])
    /\ p[2] = ord("+")
    /\ OperatorFree(SubSeq(p, 3, Len(p)))

\* C14: '+' means one or more: a pattern c+... (c a literal) accepts no input
\* in which c never occurs, the Repeat1 state having to consume at least one
\* character (so "a+b" rejects "b").
C14_PlusConsumesOnce ==
    (Returned /\ LiteralPlusAtoms(regex_expr)
        /\ \A k \in DOMAIN input_string : input_string[k] # regex_expr[1])
        => ~result

\* Object s was created for the pattern character p[s - 1] (the start state
\* is object 1).  It is a literal or '.' atom, the base of a '+' that no other
\* operator follows immediately.
DeadBase(p, s) ==
    /\ s >= 2 /\ s <= Len(p)
    /\ isascii(p[s - 1]) /\ ~IsOperator(p[s - 1])
    /\ p[s] = ord("+")
    /\ (s = Len(p) \/ ~IsOperator(p[s + 1]))

\* C15 (as claimed): after a successful compilation every state other than
\* the Termination state has at least one outgoing transition.
C15_EveryStateHasTransition ==
    compiled =>
        \A s \in DOMAIN objs :
            objs[s].cls # "TerminationState" => objs[s].next_states # <<>>

\* C15 (amended): after a successful compilation a state other than the
\* Termination state has no outgoing transition exactly when it is a literal
\* or '.' atom that is the base of a '+' not immediately followed by another
\* operator; every other state has at least one.
C15_OnlyPlusBaseHasNone ==
    compiled =>
        \A s \in DOMAIN objs :
            objs[s].cls # "TerminationState" =>
                (objs[s].next_states = <<>> <=> DeadBase(regex_expr, s))

C15_Witness ==
    /\ compiled
    /\ \E s \in DOMAIN objs : DeadBase(regex_expr, s)
    /\ \E s \in DOMAIN objs : objs[s].cls = "StarState"

\* The states of class c.
OfClass(c) == {s \in DOMAIN objs : objs[s].cls = c}

\* Some transition of state q leads to state s.
Edge(q, s) == \E k \in DOMAIN objs[q].next_states : objs[q].next_states[k] = s

\* C16: after a successful compilation there is exactly one Start state, the
\* target of no transition, and exactly one Termination state, which has no
\* outgoing transition and is a transition target of the last frontier state
\* only.
C16_OneStartOneTermination ==
    compiled =>
        /\ OfClass("StartState") = {1}
        /\ \A q \in DOMAIN objs : ~Edge(q, 1)
        /\ OfClass("TerminationState") = {Len(objs)}
        /\ objs[Len(objs)].next_states = <<>>
        /\ \A q \in DOMAIN objs : Edge(q, Len(objs)) <=> q = LastState(states)

C16_Witness ==
    /\ compiled
    /\ OfClass("StarState") # {}
    /\ OfClass("PlusState") # {}
    /\ objs[LastState(states)].cls = "AsciiState"

\* C18: the literal or '.' base of a '+' that no operator follows is a dead
\* branch: it never has an outgoing transition, no dfs call on it returns
\* True, and no frame on it is active when a call returns True.
C18_PlusBaseIsDead ==
    \A s \in DOMAIN objs :
        DeadBase(regex_expr, s) =>
            /\ objs[s].next_states = <<>>
            /\ (pc = "ret" /\ ret =>
                    /\ call.state # s
                    /\ \A k \in DOMAIN stack : stack[k].state # s)

\* An input was accepted though dfs had entered the dead base on the way.
C18_Witness ==
    /\ Returned /\ result
    /\ \E v \in visited : DeadBase(regex_expr, v[1]) /\ v[2] >= 1
    /\ Len(regex_expr) > 2

\* Plain path search.  The pairs one step from <<q, ix>>: along a transition
\* q -> n to <<n, ix + 1>> when n accepts inp[ix] and to <<n, ix>> when it
\* rejects it; none at the end of the input.
Moves(o, inp, v) ==
    IF v[2] < Len(inp)
    THEN {IF check_self(o, o[v[1]].next_states[k], inp[v[2] + 1])
          THEN <<o[v[1]].next_states[k], v[2] + 1>>
          ELSE <<o[v[1]].next_states[k], v[2]>> :
              k \in DOMAIN o[v[1]].next_states}
    ELSE {}

\* The pairs on some finite path from the pairs of found.
RECURSIVE Reachable(_, _, _)
Reachable(o, inp, found) ==
    LET more == found \cup UNION {Moves(o, inp, v) : v \in found}
    IN  IF more = found THEN found ELSE Reachable(o, inp, more)

\* Some path from <<Start, 0>> ends in a pair <<s, len(inp)>> with a
\* Termination state among the transitions of s.
PathAccepts(o, inp) ==
    \E v \in Reachable(o, inp, {<<1, 0>>}) :
        v[2] = Len(inp) /\ HasTermination(o, v[1])

\* C19: check_string returns True exactly when plain path search finds an
\* accepting path; the visited guard loses none.
C19_DfsIsPathSearch ==
    Returned => (result <=> PathAccepts(objs, input_string))

\* dfs is about to return False on a pair whose frame is still in progress,
\* in a search that has an accepting path.
C19_Witness ==
    /\ pc = "call"
    /\ VisitedKey(call.state, call.idx) \in visited
    /\ \E k \in DOMAIN stack :
          stack[k].state = call.state /\ stack[k].idx = call.idx
    /\ PathAccepts(objs, input_string)

\* Calls on one input returned one value and expanded as many frames.
HistoryAgrees ==
    \A g \in history, h \in history : g[1] = h[1] => g = h

\* C11: check_string is pure and deterministic: no step taken once the
\* automaton is compiled changes a transition list or the set of states,
\* each call starts with an empty visited set, and whatever calls preceded it,
\* a call on a given input returns the value every earlier call on it did.
C11_PureAndDeterministic ==
    /\ []HistoryAgrees
    /\ [][compiled => (objs' = objs /\ states' = states)]_vars
    /\ [][(pc # "call" /\ pc' = "call" /\ stack' = <<>>) => visited' = {}]_vars

\* A call on an input answered before, made after calls on two different
\* inputs, is about to return True as it did then.
C11_Witness ==
    /\ pc = "ret" /\ stack = <<>> /\ ret
    /\ \E h \in history : h[1] = input_string /\ h[2] = ret
    /\ \E h \in history : h[1] # input_string

\* C17: the value check_string returns does not depend on the order of any
\* state's next_states: calls on one input, made under different orders of
\* the transitions, return one value.
C17_OrderIndependent ==
    \A g \in history, h \in history : g[1] = h[1] => g[2] = h[2]

\* Two calls on one input expanded different numbers of frames, the order of
\* the transitions having changed between them, and both returned True.
C17_Witness ==
    \E g \in history, h \in history :
        g[1] = h[1] /\ g[3] # h[3] /\ g[2] /\ h[2]

====
